---- MODULE Spec2Model ----
(***************************************************************************)
(* The orchestrator watcher of eth/watchers/orchestratorwatcher.go: the    *)
(* Watch loop over the block subscription, the dispatch of a batch of      *)
(* block events log by log, and the two handlers that turn a decoded       *)
(* TranscoderActivated / TranscoderDeactivated log into a store upsert.    *)
(*                                                                         *)
(* The event decoder, the chain client (lpEth) and the block watcher are   *)
(* interfaces the watcher is constructed with: what they return is drawn   *)
(* from small sets at the moment the watcher calls them.  The orchestrator *)
(* store is an interface too; its merge-by-field upsert is modelled from   *)
(* the specification (section 3 and 6).                                    *)
(***************************************************************************)
EXTENDS Integers, Sequences, FiniteSets, TLC

VARIABLES
    addressFilter,  \* ow.addressFilter, fixed at construction
    quit,           \* ow.quit: "open" or "closed"
    panicked,       \* the process died on close of a closed channel
    pc,             \* position of the Watch goroutine
    sub,            \* the subscription made by Watch: "none", "active", "unsubscribed"
    unsubCalls,     \* calls of sub.Unsubscribe()
    events,         \* number of batches buffered in the events channel
    emitted,        \* logs the source has delivered so far
    cur,            \* what handleBlockEvents has left to range over; its first log is
                    \* the one being handled
    store,          \* the orchestrator table: a set of rows
    ent,            \* the log being handled (or handled last) and what the decoder made of it
    ans,            \* the chain query made for that log and its answer
    rec,            \* the DBOrch handed to store.UpdateOrch for that log
    res,            \* what UpdateOrch returned for that log: "none", "ok", "err"
    upserts,        \* calls of store.UpdateOrch made for that log
    logged,         \* handleLog returned an error for that log (glog.Error)
    before,         \* the store when the handling of that log began
    rep             \* that log repeats the one handled just before it, answers included

vars == <<addressFilter, quit, panicked, pc, sub, unsubCalls, events, emitted,
          cur, store, ent, ans, rec, res, upserts, logged, before, rep>>

----------------------------------------------------------------------------
(* Bounds of the model *)

\* the largest round an event or a chain record carries (the sentinel aside)
MaxRound == 1
\* batches the source lets wait in the events channel
MaxQueued == 1
\* block events in one batch
MaxGroups == 2
\* logs the source delivers in one run
MaxLogs == 2

(* Program constants *)

\* make(chan []*blockwatch.Event, 10)
EventsCap == 10
\* int64(math.MaxInt64); the largest integer of the model checker stands for it
maxFutureRound == 2147483647

----------------------------------------------------------------------------
(* Data *)

Addr == {"a1", "a2"}
\* the allow-lists a watcher is built with: none, and one that leaves an address out
Filters == {{}, {"a1"}}
NoAddr == "none"

\* ethcommon.Address.String(): the hex form that keys the store
AddrString(a) == "0x" \o a

\* what GetServiceURI / Transcoder.ServiceURI may hold; "" is Go's zero string
URIs == {"", "u1"}
\* round numbers, all within int64, where big.Int.Int64() returns the number: a chain
\* record may hold round 0 (never activated), an event carries a round that is to come
Rounds == 0 .. MaxRound
EventRounds == 1 .. MaxRound

Types == {"Added", "Removed"}

\* a types.Log as delivered: its payload is opaque until decoded
RawLogs == {[Removed |-> b] : b \in BOOLEAN}

SeqsUpTo(S, n) == UNION {[1 .. k -> S] : k \in 0 .. n}

RECURSIVE TotalLogs(_)
TotalLogs(b) ==
    IF b = <<>> THEN 0 ELSE Len(Head(b).Logs) + TotalLogs(Tail(b))

\* the batches of block events a source may deliver with n logs left to deliver
Batches(n) ==
    LET Groups == {[Type |-> ty, Logs |-> ls] : ty \in Types, ls \in SeqsUpTo(RawLogs, n)}
    IN  {b \in SeqsUpTo(Groups, MaxGroups) : TotalLogs(b) <= n}

\* what dec.FindEventName and dec.Decode make of one log
NoEvent(found, name) ==
    [found |-> found, name |-> name, decoded |-> FALSE, Transcoder |-> NoAddr, Round |-> 0]
LogEvents ==
    {NoEvent(FALSE, ""), NoEvent(TRUE, "Reward"),
     NoEvent(TRUE, "TranscoderActivated"), NoEvent(TRUE, "TranscoderDeactivated")}
    \cup {[found |-> TRUE, name |-> n, decoded |-> TRUE, Transcoder |-> a, Round |-> r] :
            n \in {"TranscoderActivated", "TranscoderDeactivated"}, a \in Addr, r \in EventRounds}

\* what lpEth.GetServiceURI may return: an error, or a string
ServiceURIResults == {[err |-> e, uri |-> u] : e \in BOOLEAN, u \in URIs} \ {[err |-> TRUE, uri |-> "u1"]}

\* what lpEth.GetTranscoder may return: an error, or the record of the address
NoTranscoder == [err |-> TRUE, ServiceURI |-> "", ActivationRound |-> 0, DeactivationRound |-> 0]
TranscoderResults ==
    {NoTranscoder} \cup
    {[err |-> FALSE, ServiceURI |-> u, ActivationRound |-> a, DeactivationRound |-> d] :
        u \in URIs, a \in Rounds, d \in Rounds \cup {maxFutureRound}}

\* the table the watcher is handed at construction: empty, or holding an orchestrator
\* that an earlier run recorded as active
Stores ==
    {{}, {[EthereumAddr |-> AddrString("a1"), ServiceURI |-> "u1",
           ActivationRound |-> MaxRound, DeactivationRound |-> maxFutureRound]}}

NoRec == [EthereumAddr |-> "", ServiceURI |-> "", ActivationRound |-> 0, DeactivationRound |-> 0]
NoAns == [op |-> "none", addr |-> NoAddr, err |-> FALSE, uri |-> "", act |-> 0, deact |-> 0]
NoEnt == [Type |-> "none", Raw |-> FALSE, Removed |-> FALSE, ev |-> NoEvent(FALSE, "")]

----------------------------------------------------------------------------
(* The store: merge-by-field upsert keyed by address.  A DBOrch field left *)
(* at Go's zero value is a field the caller did not supply.                *)

\* the merge with a column slip: an unsupplied ActivationRound takes the stored
\* DeactivationRound
M_MergeOrch(old, new) ==
    [EthereumAddr |-> old.EthereumAddr,
     ServiceURI |-> IF new.ServiceURI = "" THEN old.ServiceURI ELSE new.ServiceURI,
     ActivationRound |-> IF new.ActivationRound = 0 THEN old.DeactivationRound
                         ELSE new.ActivationRound,
     DeactivationRound |-> IF new.DeactivationRound = 0 THEN old.DeactivationRound
                           ELSE new.DeactivationRound]

MergeOrch(old, new) ==
    [EthereumAddr |-> old.EthereumAddr,
     ServiceURI |-> IF new.ServiceURI = "" THEN old.ServiceURI ELSE new.ServiceURI,
     ActivationRound |-> IF new.ActivationRound = 0 THEN old.ActivationRound
                         ELSE new.ActivationRound,
     DeactivationRound |-> IF new.DeactivationRound = 0 THEN old.DeactivationRound
                           ELSE new.DeactivationRound]

Rows(s, key) == {row \in s : row.EthereumAddr = key}

UpsertOrch(s, orch) ==
    IF Rows(s, orch.EthereumAddr) = {}
    THEN s \cup {orch}
    ELSE {IF row.EthereumAddr = orch.EthereumAddr THEN MergeOrch(row, orch) ELSE row : row \in s}

----------------------------------------------------------------------------
(* The handlers *)

\* the filter with its length test off by one
M_PassesFilter(a) == Cardinality(addressFilter) > 1 => a \in addressFilter

\* common.ContainsAddress behind len(ow.addressFilter) > 0
PassesFilter(a) == Cardinality(addressFilter) > 0 => a \in addressFilter

Uri(a, r) == [op |-> "GetServiceURI", addr |-> a, err |-> r.err, uri |-> r.uri, act |-> 0, deact |-> 0]
\* GetTranscoder answers with the record of the address it is asked about: t.Address
\* is that address
Transcoder(a, r) ==
    [op |-> "GetTranscoder", addr |-> a, err |-> r.err, uri |-> r.ServiceURI,
     act |-> r.ActivationRound, deact |-> r.DeactivationRound]

\* a handler's run: the chain query it made, the upsert it hands to the store, its error
Return(a, hasRec, r, e) == [ans |-> a, upsert |-> hasRec, rec |-> r, err |-> e]

\* the forward-path activation without its DeactivationRound
M_ActivatedAdded(ev, u) ==
    [EthereumAddr |-> AddrString(ev.Transcoder), ServiceURI |-> u.uri,
     ActivationRound |-> ev.Round, DeactivationRound |-> 0]

ActivatedAdded(ev, u) ==
    [EthereumAddr |-> AddrString(ev.Transcoder), ServiceURI |-> u.uri,
     ActivationRound |-> ev.Round, DeactivationRound |-> maxFutureRound]

ActivatedRemoved(t) ==
    [EthereumAddr |-> AddrString(t.addr), ServiceURI |-> t.uri,
     ActivationRound |-> t.act, DeactivationRound |-> t.deact]

\* the forward-path deactivation copied from the activation, its ActivationRound kept
M_DeactivatedAdded(ev) ==
    [EthereumAddr |-> AddrString(ev.Transcoder), ServiceURI |-> "",
     ActivationRound |-> ev.Round, DeactivationRound |-> ev.Round]

DeactivatedAdded(ev) ==
    [EthereumAddr |-> AddrString(ev.Transcoder), ServiceURI |-> "",
     ActivationRound |-> 0, DeactivationRound |-> ev.Round]

DeactivatedRemoved(t) ==
    [EthereumAddr |-> AddrString(t.addr), ServiceURI |-> "",
     ActivationRound |-> t.act, DeactivationRound |-> t.deact]

\* the activation handler that does not look at the error of GetServiceURI
M_handleTranscoderActivated(log, ev, uriRes, tRes) ==
    IF ~ev.decoded THEN Return(NoAns, FALSE, NoRec, TRUE)
    ELSE IF ~PassesFilter(ev.Transcoder) THEN Return(NoAns, FALSE, NoRec, FALSE)
    ELSE IF ~log.Removed
    THEN LET u == Uri(ev.Transcoder, uriRes)
         IN  Return(u, TRUE, ActivatedAdded(ev, u), FALSE)
    ELSE LET t == Transcoder(ev.Transcoder, tRes)
         IN  IF t.err THEN Return(t, FALSE, NoRec, TRUE)
             ELSE Return(t, TRUE, ActivatedRemoved(t), FALSE)

handleTranscoderActivated(log, ev, uriRes, tRes) ==
    IF ~ev.decoded THEN Return(NoAns, FALSE, NoRec, TRUE)
    ELSE IF ~PassesFilter(ev.Transcoder) THEN Return(NoAns, FALSE, NoRec, FALSE)
    ELSE IF ~log.Removed
    THEN LET u == Uri(ev.Transcoder, uriRes)
         IN  IF u.err THEN Return(u, FALSE, NoRec, TRUE)
             ELSE Return(u, TRUE, ActivatedAdded(ev, u), FALSE)
    ELSE LET t == Transcoder(ev.Transcoder, tRes)
         IN  IF t.err THEN Return(t, FALSE, NoRec, TRUE)
             ELSE Return(t, TRUE, ActivatedRemoved(t), FALSE)

handleTranscoderDeactivated(log, ev, tRes) ==
    IF ~ev.decoded THEN Return(NoAns, FALSE, NoRec, TRUE)
    ELSE IF ~PassesFilter(ev.Transcoder) THEN Return(NoAns, FALSE, NoRec, FALSE)
    ELSE IF ~log.Removed
    THEN Return(NoAns, TRUE, DeactivatedAdded(ev), FALSE)
    ELSE LET t == Transcoder(ev.Transcoder, tRes)
         IN  IF t.err THEN Return(t, FALSE, NoRec, TRUE)
             ELSE Return(t, TRUE, DeactivatedRemoved(t), FALSE)

\* the switch whose default case is the activation handler
M_handleLog(log, ev, uriRes, tRes) ==
    IF ~ev.found THEN Return(NoAns, FALSE, NoRec, FALSE)
    ELSE IF ev.name = "TranscoderDeactivated" THEN handleTranscoderDeactivated(log, ev, tRes)
    ELSE handleTranscoderActivated(log, ev, uriRes, tRes)

handleLog(log, ev, uriRes, tRes) ==
    IF ~ev.found THEN Return(NoAns, FALSE, NoRec, FALSE)
    ELSE IF ev.name = "TranscoderActivated" THEN handleTranscoderActivated(log, ev, uriRes, tRes)
    ELSE IF ev.name = "TranscoderDeactivated" THEN handleTranscoderDeactivated(log, ev, tRes)
    ELSE Return(NoAns, FALSE, NoRec, FALSE)

\* the answers the chain client may give to method op, when the handling of log asks
\* it; one placeholder when it does not
Asked(log, ev, op, results) ==
    LET x == CHOOSE y \in results : TRUE
    IN  IF handleLog(log, ev, CHOOSE u \in ServiceURIResults : TRUE,
                     CHOOSE t \in TranscoderResults : TRUE).ans.op = op
        THEN results ELSE {x}

----------------------------------------------------------------------------
(* The range loops of handleBlockEvents *)

\* the block events that have a log: the inner loop does nothing for the others
HasLogs(event) == event.Logs # <<>>
Seek(b) == SelectSeq(b, HasLogs)

\* the inner loop left after its first log (break where the loop goes on)
M_Rest(b) == Seek(Tail(b))

\* what is left once the first log has been handled
Rest(b) == Seek(<<[Head(b) EXCEPT !.Logs = Tail(@)]>> \o Tail(b))

\* the loops move on to the next log, or handleBlockEvents returns to the select
Continue(b) ==
    /\ cur' = b
    /\ pc' = IF b = <<>> THEN "select" ELSE "dispatch"

\* the loops that look at the quit channel and drop the rest of the batch, the store
\* call of the log in hand included
M_AfterHandleLogQuit(r) ==
    IF quit = "closed" THEN cur' = <<>> /\ pc' = "select"
    ELSE IF r.upsert THEN pc' = "upsert" /\ UNCHANGED cur
    ELSE Continue(Rest(cur))

\* the loops that return on the first error of handleLog
M_AfterHandleLog(r) ==
    IF r.err THEN cur' = <<>> /\ pc' = "select"
    ELSE IF r.upsert THEN pc' = "upsert" /\ UNCHANGED cur
    ELSE Continue(Rest(cur))

\* if err := ow.handleLog(log); err != nil { glog.Error(err) }: whatever handleLog
\* returns, the loop goes on; a handler that reached the store call stands before it
AfterHandleLog(r) ==
    IF r.upsert
    THEN pc' = "upsert" /\ UNCHANGED cur
    ELSE Continue(Rest(cur))

----------------------------------------------------------------------------
(* Actions *)

Init ==
    /\ addressFilter \in Filters
    /\ quit = "open"
    /\ panicked = FALSE
    /\ pc = "idle"
    /\ sub = "none"
    /\ unsubCalls = 0
    /\ events = 0
    /\ emitted = 0
    /\ cur = <<>>
    /\ store \in Stores
    /\ ent = NoEnt
    /\ ans = NoAns
    /\ rec = NoRec
    /\ res = "none"
    /\ upserts = 0
    /\ logged = FALSE
    /\ before = store
    /\ rep = FALSE

trace == <<ent, ans, rec, res, upserts, logged, before, rep>>

\* Watch: make the channel and subscribe
WatchSubscribe ==
    /\ ~panicked
    /\ pc = "idle"
    /\ pc' = "select"
    /\ sub' = "active"
    /\ events' = 0
    /\ UNCHANGED <<addressFilter, quit, panicked, unsubCalls, emitted, cur, store, trace>>

\* Stop that does nothing when the channel is closed
M_Stop ==
    /\ ~panicked
    /\ quit' = "closed"
    /\ UNCHANGED <<addressFilter, store, panicked, pc, sub, unsubCalls, events, emitted, cur, trace>>

\* Stop: close(ow.quit)
Stop ==
    /\ ~panicked
    /\ IF quit = "open"
       THEN /\ quit' = "closed"
            /\ UNCHANGED <<panicked, pc, sub, unsubCalls, events, emitted, cur, trace>>
       ELSE \* close of a closed channel: the process is gone, the table stays
            /\ panicked' = TRUE
            /\ pc' = "crashed"
            /\ sub' = "none" /\ unsubCalls' = 0 /\ events' = 0
            /\ emitted' = 0 /\ cur' = <<>>
            /\ ent' = NoEnt /\ ans' = NoAns /\ rec' = NoRec /\ res' = "none"
            /\ upserts' = 0 /\ logged' = FALSE /\ before' = store /\ rep' = FALSE
            /\ UNCHANGED quit
    /\ UNCHANGED <<addressFilter, store>>

\* the block watcher puts a batch into the channel it was given
SourceSend ==
    /\ ~panicked
    /\ sub = "active"
    /\ events < EventsCap
    /\ events < MaxQueued
    /\ events' = events + 1
    /\ UNCHANGED <<addressFilter, quit, panicked, pc, sub, unsubCalls, emitted, cur, store, trace>>

\* the quit case without the deferred Unsubscribe
M_WatchQuit ==
    /\ ~panicked
    /\ pc = "select"
    /\ quit = "closed"
    /\ pc' = "returned"
    /\ UNCHANGED <<addressFilter, quit, panicked, sub, unsubCalls, events, emitted, cur, store, trace>>

\* case <-ow.quit: return, and the deferred sub.Unsubscribe()
WatchQuit ==
    /\ ~panicked
    /\ pc = "select"
    /\ quit = "closed"
    /\ pc' = "returned"
    /\ sub' = "unsubscribed"
    /\ unsubCalls' = unsubCalls + 1
    /\ UNCHANGED <<addressFilter, quit, panicked, events, emitted, cur, store, trace>>

\* the error case that returns from Watch
M_WatchErr ==
    /\ ~panicked
    /\ pc = "select"
    /\ sub = "active"
    /\ pc' = "returned"
    /\ sub' = "unsubscribed"
    /\ unsubCalls' = unsubCalls + 1
    /\ ent' = NoEnt /\ ans' = NoAns /\ rec' = NoRec /\ res' = "none"
    /\ upserts' = 0 /\ logged' = TRUE /\ before' = store /\ rep' = FALSE
    /\ UNCHANGED <<addressFilter, quit, panicked, events, emitted, cur, store>>

\* case err := <-sub.Err(): glog.Error(err); the subscription hands over an error
\* whenever the select is ready to take one
WatchErr ==
    /\ ~panicked
    /\ pc = "select"
    /\ sub = "active"
    /\ ent' = NoEnt /\ ans' = NoAns /\ rec' = NoRec /\ res' = "none"
    /\ upserts' = 0 /\ logged' = TRUE /\ before' = store /\ rep' = FALSE
    /\ UNCHANGED <<addressFilter, quit, panicked, pc, sub, unsubCalls, events, emitted, cur, store>>

\* case events := <-events: ow.handleBlockEvents(events), up to its first log
WatchEvents ==
    /\ ~panicked
    /\ pc = "select"
    /\ events > 0
    /\ events' = events - 1
    /\ \E b \in Batches(MaxLogs - emitted) :
        /\ emitted' = emitted + TotalLogs(b)
        /\ Continue(Seek(b))
    /\ UNCHANGED <<addressFilter, quit, panicked, sub, unsubCalls, store, trace>>

\* the inner loop ranging over the logs by reference: the mark goes into the batch
M_handleBlockEvents ==
    /\ ~panicked
    /\ pc = "dispatch"
    /\ LET event == Head(cur)
           raw == Head(event.Logs)
           log == [raw EXCEPT !.Removed = raw.Removed \/ event.Type = "Removed"]
       IN  \E ev \in LogEvents :
           \E uriRes \in Asked(log, ev, "GetServiceURI", ServiceURIResults) :
           \E tRes \in Asked(log, ev, "GetTranscoder", TranscoderResults) :
             LET r == handleLog(log, ev, uriRes, tRes)
                 e == [Type |-> event.Type, Raw |-> raw.Removed, Removed |-> log.Removed, ev |-> ev]
             IN  /\ ent' = e
                 /\ ans' = r.ans
                 /\ rec' = r.rec
                 /\ res' = "none"
                 /\ upserts' = 0
                 /\ logged' = r.err
                 /\ before' = store
                 /\ rep' = (ent = e /\ ans = r.ans /\ res # "err")
                 /\ IF r.upsert
                    THEN /\ pc' = "upsert"
                         /\ cur' = <<[event EXCEPT !.Logs = <<log>> \o Tail(@)]>> \o Tail(cur)
                    ELSE Continue(Rest(cur))
    /\ UNCHANGED <<addressFilter, quit, panicked, sub, unsubCalls, events, emitted, store>>

\* one turn of the inner loop of handleBlockEvents: the log is marked, decoded,
\* filtered and its chain query made; the handler stands before store.UpdateOrch
\* or has returned
handleBlockEvents ==
    /\ ~panicked
    /\ pc = "dispatch"
    /\ LET event == Head(cur)
           raw == Head(event.Logs)
           log == [raw EXCEPT !.Removed = raw.Removed \/ event.Type = "Removed"]
       IN  \E ev \in LogEvents :
           \E uriRes \in Asked(log, ev, "GetServiceURI", ServiceURIResults) :
           \E tRes \in Asked(log, ev, "GetTranscoder", TranscoderResults) :
             LET r == handleLog(log, ev, uriRes, tRes)
                 e == [Type |-> event.Type, Raw |-> raw.Removed, Removed |-> log.Removed, ev |-> ev]
             IN  /\ ent' = e
                 /\ ans' = r.ans
                 /\ rec' = r.rec
                 /\ res' = "none"
                 /\ upserts' = 0
                 /\ logged' = r.err
                 /\ before' = store
                 /\ rep' = (ent = e /\ ans = r.ans /\ res # "err")
                 /\ AfterHandleLog(r)
    /\ UNCHANGED <<addressFilter, quit, panicked, sub, unsubCalls, events, emitted, store>>

\* the store call that is made again when it fails
M_UpdateOrch ==
    /\ ~panicked
    /\ pc = "upsert"
    /\ \E ok \in BOOLEAN :
        /\ store' = IF ok THEN UpsertOrch(store, rec) ELSE store
        /\ res' = IF ok THEN "ok" ELSE "err"
        /\ logged' = ~ok
        /\ IF ok THEN Continue(Rest(cur)) ELSE UNCHANGED <<pc, cur>>
    /\ upserts' = upserts + 1
    /\ UNCHANGED <<addressFilter, quit, panicked, sub, unsubCalls, events, emitted,
                   ent, ans, rec, before, rep>>

\* return ow.store.UpdateOrch(...), and the loops move on
UpdateOrch ==
    /\ ~panicked
    /\ pc = "upsert"
    /\ \E ok \in BOOLEAN :
        /\ store' = IF ok THEN UpsertOrch(store, rec) ELSE store
        /\ res' = IF ok THEN "ok" ELSE "err"
        /\ logged' = ~ok
    /\ upserts' = upserts + 1
    /\ Continue(Rest(cur))
    /\ UNCHANGED <<addressFilter, quit, panicked, sub, unsubCalls, events, emitted,
                   ent, ans, rec, before, rep>>

Next ==
    \/ WatchSubscribe
    \/ Stop
    \/ SourceSend
    \/ WatchQuit
    \/ WatchErr
    \/ WatchEvents
    \/ handleBlockEvents
    \/ UpdateOrch

Spec == Init /\ [][Next]_vars

\* The Watch goroutine keeps running: a handler that was entered returns, a store call
\* returns, and the select, which picks among its ready cases at random, does not pass
\* over a closed quit channel for ever.
LiveSpec ==
    /\ Init /\ [][Next]_vars
    /\ WF_vars(handleBlockEvents)
    /\ WF_vars(UpdateOrch)
    /\ SF_vars(WatchQuit)

----------------------------------------------------------------------------
(* Properties *)

Kinds == {"TranscoderActivated", "TranscoderDeactivated"}

\* a log of one of the two kinds that decoded and passed the filter
Reconciled ==
    /\ ent.ev.name \in Kinds
    /\ ent.ev.decoded
    /\ PassesFilter(ent.ev.Transcoder)

\* the handling of the log in ent is over
Done == ent.Type # "none" /\ pc # "upsert"

Key == AddrString(ent.ev.Transcoder)

\* C1: a TranscoderActivated log of a batch tagged Added that decodes, passes the
\* filter and whose GetServiceURI call succeeds gets exactly one upsert: the address is
\* the event's subject, the serviceURI is what GetServiceURI returned for that subject,
\* the activationRound is the event's round and the deactivationRound is the sentinel.
C1_ActivatedAddedUpsert ==
    (/\ ent.Type = "Added"
     /\ ent.ev.name = "TranscoderActivated"
     /\ Reconciled
     /\ ans.op = "GetServiceURI"
     /\ ~ans.err)
    => /\ ans.addr = ent.ev.Transcoder
       /\ rec = [EthereumAddr |-> Key, ServiceURI |-> ans.uri,
                 ActivationRound |-> ent.ev.Round, DeactivationRound |-> maxFutureRound]
       /\ upserts = IF pc = "upsert" THEN 0 ELSE 1

C1_Witness ==
    /\ Done
    /\ ent.Type = "Added" /\ ent.ev.name = "TranscoderActivated" /\ Reconciled
    /\ ans.op = "GetServiceURI" /\ ~ans.err /\ ans.uri = "u1"
    /\ upserts = 1 /\ res = "ok"
    /\ rec \in store

\* C2: a TranscoderDeactivated log of a batch tagged Added that decodes and passes the
\* filter makes no chain query and gets one upsert that supplies the address and the
\* event's round as deactivationRound and nothing else; a record the table held for the
\* address has the same serviceURI and activationRound after the upsert as before.
C2_DeactivatedAddedUpsert ==
    (/\ ent.Type = "Added"
     /\ ent.ev.name = "TranscoderDeactivated"
     /\ Reconciled)
    => /\ ans.op = "none"
       /\ rec = [EthereumAddr |-> Key, ServiceURI |-> "",
                 ActivationRound |-> 0, DeactivationRound |-> ent.ev.Round]
       /\ upserts = IF pc = "upsert" THEN 0 ELSE 1
       /\ \A old \in Rows(before, Key) : \E new \in Rows(store, Key) :
            /\ new.ServiceURI = old.ServiceURI
            /\ new.ActivationRound = old.ActivationRound

\* C3: a log of either kind of a batch tagged Removed that decodes, passes the filter
\* and whose GetTranscoder call succeeds gets an upsert that carries the record
\* GetTranscoder returned for the subject: address, serviceURI, activationRound and
\* deactivationRound, whatever round the event carries.
C3_RemovedUpsertIsCanonical ==
    (/\ ent.Type = "Removed"
     /\ Reconciled
     /\ ans.op = "GetTranscoder"
     /\ ~ans.err)
    => /\ ans.addr = ent.ev.Transcoder
       /\ rec = [EthereumAddr |-> Key, ServiceURI |-> ans.uri,
                 ActivationRound |-> ans.act, DeactivationRound |-> ans.deact]

\* C4: once a log of either kind of a batch tagged Removed has been handled with a
\* successful GetTranscoder and a successful upsert, the table's record of the subject
\* equals the record GetTranscoder returned in serviceURI, activationRound and
\* deactivationRound, whatever was handled before.
C4_StoreConvergesToCanonical ==
    (/\ Done
     /\ ent.Type = "Removed"
     /\ Reconciled
     /\ ans.op = "GetTranscoder" /\ ~ans.err
     /\ res = "ok")
    => Rows(store, Key) = {[EthereumAddr |-> Key, ServiceURI |-> ans.uri,
                            ActivationRound |-> ans.act, DeactivationRound |-> ans.deact]}

\* C5: with a non-empty allow-list, every chain query is about an address of the list,
\* every upsert is keyed by an address of the list, and a log of either kind and either
\* disposition whose subject is outside the list gets no query and no upsert and leaves
\* the table as it was.
C5_FilterKeepsOut ==
    addressFilter # {} =>
        /\ ans.op # "none" => ans.addr \in addressFilter
        /\ (pc = "upsert" \/ upserts > 0) =>
                \E a \in addressFilter : rec.EthereumAddr = AddrString(a)
        /\ (ent.ev.decoded /\ ent.ev.Transcoder \notin addressFilter) =>
                /\ ans.op = "none"
                /\ pc # "upsert"
                /\ upserts = 0
                /\ store = before

C5_Witness ==
    /\ addressFilter = {"a1"}
    /\ Done
    /\ ent.Type = "Removed"
    /\ ent.ev.name = "TranscoderDeactivated"
    /\ ent.ev.decoded /\ ent.ev.Transcoder = "a2"
    /\ store # {}
    /\ ~logged

\* C6: when an Added-tagged log of either kind is handled right after the same log
\* with the same decoded event and the same chain answers, the table after the second
\* handling is the table after the first.
C6_AddedTwiceIsAddedOnce ==
    (/\ rep
     /\ ent.Type = "Added"
     /\ ent.ev.name \in Kinds
     /\ Done)
    => store = before

C6_Witness ==
    /\ rep /\ Done
    /\ ent.Type = "Added" /\ ~ent.Removed
    /\ ent.ev.name = "TranscoderDeactivated" /\ Reconciled
    /\ upserts = 1 /\ res = "ok"
    /\ \E row \in store : row.EthereumAddr = Key /\ row.ServiceURI = "u1"

\* the step of handleBlockEvents that handles one log
HandlesLog == pc = "dispatch" /\ ~panicked' /\ (cur' # cur \/ pc' # pc)

\* the log has no resolvable event name, or is of one of the two kinds and fails to decode
Unreadable(e) == ~e.ev.found \/ (e.ev.name \in Kinds /\ ~e.ev.decoded)

\* the loops have moved to the log after the one handled
MovesOn ==
    /\ cur' = Rest(cur)
    /\ pc' = IF Rest(cur) = <<>> THEN "select" ELSE "dispatch"

\* C7: handling a log whose event name cannot be resolved or whose decoding fails
\* leaves the table, the subscription, the quit channel, the queued batches and the
\* filter as they were, makes no chain query and no upsert, and moves the loops on to
\* the next log of the batch, or back to the select when it was the last.
C7_UnreadableLogIsSkipped ==
    [][(HandlesLog /\ Unreadable(ent'))
        => /\ MovesOn
           /\ ans'.op = "none" /\ upserts' = 0
           /\ UNCHANGED <<store, sub, unsubCalls, quit, events, emitted, addressFilter>>]_vars

C7_Witness ==
    /\ Done
    /\ ent.ev.name = "TranscoderActivated" /\ ~ent.ev.decoded
    /\ logged
    /\ pc = "dispatch"
    /\ store # {}

\* C8: when GetTranscoder or GetServiceURI fails for a log, the handler reaches no
\* upsert, the table stays what it was before the log, and the loops move on to the
\* next log of the batch.
C8_FailedQueryNoUpsert ==
    /\ [][(HandlesLog /\ ans'.err)
            => /\ MovesOn
               /\ rec' = NoRec /\ upserts' = 0 /\ logged'
               /\ UNCHANGED store]_vars
    /\ [](ans.err => ans.op # "none" /\ pc # "upsert" /\ upserts = 0 /\ store = before)

C8_Witness ==
    /\ Done
    /\ ans.op = "GetTranscoder" /\ ans.err
    /\ ent.Type = "Removed"
    /\ pc = "dispatch"
    /\ store # {}

\* C9: Watch has returned only if the quit channel is closed, that is only after Stop:
\* no error of the subscription, of a log or of the store makes it return.
C9_ReturnsOnlyAfterStop == pc = "returned" => quit = "closed"

C9_Witness ==
    /\ pc = "returned"
    /\ quit = "closed"
    /\ logged
    /\ emitted = MaxLogs

\* C10: once the quit channel is closed and Watch runs, Watch returns (or the process
\* dies of a second Stop), and when Watch has returned Unsubscribe has been called
\* exactly once, on the subscription Watch made.
C10_StopEndsWatch ==
    /\ (quit = "closed" /\ pc \notin {"idle", "crashed"}) ~> (pc \in {"returned", "crashed"})
    /\ [](pc = "returned" => unsubCalls = 1 /\ sub = "unsubscribed")

C10_Witness ==
    /\ pc = "returned"
    /\ unsubCalls = 1
    /\ sub = "unsubscribed"
    /\ events > 0

\* C11: once the quit channel is closed, Watch takes no batch from the events channel
\* any more, also when batches wait in it.
C11_NoReceiveAfterStop ==
    [][(quit = "closed" /\ ~panicked') => ~(events' < events)]_vars

\* the logs of a batch in the order of the range loops, each with the tag of its block
\* event and its Removed flag as delivered
RECURSIVE Flat(_)
Flat(b) ==
    IF b = <<>> THEN <<>>
    ELSE [i \in 1 .. Len(Head(b).Logs) |->
            [Type |-> Head(b).Type, Raw |-> Head(b).Logs[i].Removed]] \o Flat(Tail(b))

Keys(s) == {row.EthereumAddr : row \in s}

C14_CreatedByActivationOnly ==
    [][\A k \in Keys(store') \ Keys(store) :
            /\ ent'.ev.name = "TranscoderActivated"
            /\ AddrString(ent'.ev.Transcoder) = k]_vars

\* C15: a log that decodes and passes the filter is reconciled by the tag of its block
\* event, whatever its own Removed flag was when delivered: GetTranscoder is asked for
\* a log of a Removed block event, and for a log of an Added block event GetServiceURI
\* is asked (TranscoderActivated) or nothing (TranscoderDeactivated).
C15_PathByBatchTag ==
    Reconciled =>
        ans.op = IF ent.Type = "Removed" THEN "GetTranscoder"
                 ELSE IF ent.ev.name = "TranscoderActivated" THEN "GetServiceURI"
                 ELSE "none"

\* the step of the select that takes an error from the subscription
TakesErr ==
    /\ pc = "select" /\ sub = "active"
    /\ UNCHANGED <<pc, events, quit, panicked>>
    /\ ent' = NoEnt /\ logged'

\* the log has no resolvable event name, or a name that is not one of the two kinds
Ignored(e) == ~e.ev.found \/ e.ev.name \notin Kinds

\* C16: an error of the subscription, a log whose event name is not resolved and a log
\* of another event name each make no chain query and no upsert, report no error of a
\* handler, and leave the table as it was.
C16_NotReconciledNoEffect ==
    /\ [][TakesErr => /\ ans' = NoAns /\ rec' = NoRec /\ upserts' = 0
                      /\ UNCHANGED <<store, sub, cur>>]_vars
    /\ [][(HandlesLog /\ Ignored(ent'))
            => /\ ans' = NoAns /\ rec' = NoRec /\ upserts' = 0 /\ ~logged'
               /\ pc' # "upsert"
               /\ UNCHANGED store]_vars
    /\ [](Ignored(ent) => store = before /\ upserts = 0 /\ ans.op = "none")

C16_Witness ==
    /\ Done
    /\ ent.ev.found /\ ent.ev.name = "Reward"
    /\ ent.Type = "Removed"
    /\ store # {}
    /\ pc = "dispatch"

\* C17: no log gets more than one call of UpdateOrch, and a call that fails leaves the
\* table as it was and moves the loops on to the next log, or back to the select.
C17_NoRetry ==
    /\ [](upserts <= 1)
    /\ [][(pc = "upsert" /\ res' = "err" /\ ~panicked')
            => /\ MovesOn
               /\ upserts' = 1
               /\ UNCHANGED <<store, sub, quit, events>>]_vars

C17_Witness ==
    /\ Done
    /\ res = "err" /\ upserts = 1 /\ logged
    /\ pc = "dispatch"
    /\ store = before

\* C18: the step that closes the quit channel changes nothing of the dispatch; Watch
\* returns from its select only, with no log of a batch left; a log that decoded, passed
\* the filter and whose chain query did not fail has had its one store call once it is
\* handled; and a store call that is pending when the channel is closed is made.
C18_StopLeavesEntryWhole ==
    /\ [][(quit = "open" /\ quit' = "closed")
            => UNCHANGED <<pc, cur, store, sub, events, ent, ans, rec, res, upserts>>]_vars
    /\ [][(pc' = "returned" /\ pc # "returned") => pc = "select" /\ cur = <<>>]_vars
    /\ []((Done /\ Reconciled /\ ~ans.err) => upserts = 1)
    /\ (quit = "closed" /\ pc = "upsert") ~> (upserts = 1 \/ pc = "crashed")

C18_Witness ==
    /\ pc = "returned"
    /\ Reconciled /\ ans.op = "GetTranscoder" /\ ~ans.err
    /\ upserts = 1 /\ res = "ok"
    /\ store # before

\* C19: while the quit channel is open Stop can be called, whatever Watch does, and
\* closes it without touching Watch; on the closed channel Stop can only kill the
\* process; the channel is closed once and never opened again.
C19_StopSingleUse ==
    /\ []((~panicked /\ quit = "open")
            => ENABLED (Stop /\ quit' = "closed" /\ ~panicked' /\ pc' = pc))
    /\ []((~panicked /\ quit = "closed")
            => ENABLED (Stop /\ panicked') /\ ~ENABLED (Stop /\ ~panicked'))
    /\ [][quit' # quit => quit = "open" /\ quit' = "closed" /\ ~panicked']_vars
    /\ [][(panicked' /\ ~panicked) => quit = "closed"]_vars

C19_Witness ==
    /\ panicked
    /\ pc = "crashed"
    /\ quit = "closed"
    /\ store # {}

\* C20: dispatching writes nothing into the batch: a step of the dispatch leaves the
\* block events, their tags, their logs and the logs' Removed flags as they are, or
\* moves past the first log; the log in hand of a Removed block event still carries in
\* the batch the flag it was delivered with, while the handler's copy is marked.
C20_BatchNotModified ==
    /\ [][(pc \in {"dispatch", "upsert"} /\ ~panicked') => cur' = cur \/ cur' = Rest(cur)]_vars
    /\ [](pc = "upsert" =>
            /\ Head(Head(cur).Logs).Removed = ent.Raw
            /\ Head(cur).Type = ent.Type
            /\ ent.Removed = (ent.Raw \/ ent.Type = "Removed"))

C20_Witness ==
    /\ pc = "upsert"
    /\ ent.Type = "Removed" /\ ent.Removed /\ ~ent.Raw
    /\ ~Head(Head(cur).Logs).Removed
    /\ Len(Head(cur).Logs) = 2

====
